---- MODULE Spec2Model ----
(***************************************************************************)
(* A model of nltk/corpus/util.py: LazyCorpusLoader, the proxy that stands *)
(* in for a corpus reader, loads it on the first attribute access by       *)
(* replacing its own __dict__ and __class__, and can be reset by _unload.  *)
(*                                                                         *)
(* Strings the code takes apart (the corpus name) are sequences of         *)
(* one-character strings; every value an attribute access can return is a  *)
(* sequence of strings.                                                    *)
(***************************************************************************)
EXTENDS Integers, Sequences, FiniteSets, TLC

\* The resets of a loaded handle in one behaviour.
MaxCycles == 2

\* The failed loads in a row in one behaviour.
MaxFailures == 2

\* The depth at which the interpreter gives up a runaway recursion.
MaxRecursion == 2
MaxCallers == 2

VARIABLES
    hclass,            \* the handle's __class__
    hdict,             \* the handle's __dict__
    TRY_ZIPFILE_FIRST, \* the module's global policy flag
    reEmptyAdjacent,   \* the runtime's re.sub: is an empty match accepted right after a match
    created,           \* history: the arguments of the handle's __init__
    built,             \* history: the corpus the reader class returned last
    pre,               \* history: the handle's state before the last operation
    result,            \* history: the last operation and what its caller got
    calls,             \* history: the collaborator calls of the last operation
    lastLoad,          \* history: how the last __load since creation or reset ended
    cycles,            \* history: the resets of a loaded handle so far
    failures,          \* history: the failed loads in a row
    resources,         \* history: the paths that existed at the last operation's __load
    callers            \* the threads inside getattr(handle, attr), each with its locals

vars == <<hclass, hdict, TRY_ZIPFILE_FIRST, reEmptyAdjacent, created, built, pre,
          result, calls, lastLoad, cycles, failures, resources, callers>>

LAZY == "LazyCorpusLoader"

\* The handles the model creates: the arguments of LazyCorpusLoader(...).
Names == { <<"a">>, <<"a", "/", "b">> }
ReaderClasses == { "ReaderA", "ReaderB" }
CtorArgs == { [args |-> <<>>, kwargs |-> <<>>],
              [args |-> <<"x">>, kwargs |-> <<"k=v">>] }

\* The attribute names the model reads through the handle.
Attrs == { "words", "raw", "missing", "__bases__", "__name__" }

----------------------------------------------------------------------------
\* What a call hands its caller: a value, or an exception and its payload.

Return(v) == [kind |-> "return", exc |-> "", val |-> v]

Raise(e, v) == [kind |-> "raise", exc |-> e, val |-> v]

None == <<>>

----------------------------------------------------------------------------
\* re.sub(r'(([^/]*)(/.*)?)', r'\2.zip/\1/', name)

\* [^/]*: the index just past the longest run of non-slash characters from i.
RECURSIVE SegEnd(_, _)
SegEnd(s, i) == IF i <= Len(s) /\ s[i] # "/" THEN SegEnd(s, i + 1) ELSE i

\* The match of (([^/]*)(/.*)?) at position b: group 2 is [b, g2e), the match [b, e).
MatchAt(s, b) ==
    LET g2e == SegEnd(s, b)
    IN  [b |-> b, g2e |-> g2e, e |-> IF g2e <= Len(s) THEN Len(s) + 1 ELSE g2e]

\* The template \2.zip/\1/ expanded for the match m.
Expand(s, m) ==
    SubSeq(s, m.b, m.g2e - 1) \o <<".", "z", "i", "p", "/">>
        \o SubSeq(s, m.b, m.e - 1) \o <<"/">>

\* The substitution loop of runtimes that ignore an empty match on the position
\* where the latest match ended.
RECURSIVE SubLoopLegacy(_, _, _, _, _)
SubLoopLegacy(s, start, i, n, out) ==
    IF start > Len(s) + 1 THEN out \o SubSeq(s, i, Len(s))
    ELSE LET m == MatchAt(s, start)
             next == IF m.e = m.b THEN m.e + 1 ELSE m.e
         IN  IF i = m.b /\ i = m.e /\ n > 0
             THEN SubLoopLegacy(s, next, i, n, out)
             ELSE SubLoopLegacy(s, next, m.e, n + 1,
                                out \o SubSeq(s, i, m.b - 1) \o Expand(s, m))

\* The substitution loop of runtimes that accept an empty match adjacent to the
\* previous match and only refuse two empty matches on one position.
RECURSIVE SubLoopAdjacent(_, _, _, _, _)
SubLoopAdjacent(s, start, mustAdvance, i, out) ==
    LET b == IF mustAdvance /\ MatchAt(s, start).e = start THEN start + 1 ELSE start
    IN  IF b > Len(s) + 1 THEN out \o SubSeq(s, i, Len(s))
        ELSE LET m == MatchAt(s, b)
             IN  SubLoopAdjacent(s, m.e, m.e = m.b, m.e,
                                 out \o SubSeq(s, i, b - 1) \o Expand(s, m))

re_sub(s, emptyAdjacent) ==
    IF emptyAdjacent THEN SubLoopAdjacent(s, 1, FALSE, 1, <<>>)
    ELSE SubLoopLegacy(s, 1, 1, 0, <<>>)

\* 'corpora/%s' % s
Corpora(s) == <<"c", "o", "r", "p", "o", "r", "a", "/">> \o s

----------------------------------------------------------------------------
\* The collaborators: nltk.data.find and the reader class.

\* The directory nltk.data.find resolves a found resource under.
DataDir == <<"/", "d", "/">>

\* nltk.data.find(path) when exactly the paths in avail exist: the resource's
\* location, or a LookupError that names the path asked for.
nltk_data_find(path, avail) ==
    IF path \in avail THEN Return(DataDir \o path) ELSE Raise("LookupError", path)

\* reader_cls(root, *args, **kwargs): the corpus object, or the error of a
\* constructor that raises.
reader_cls_call(call, ctorRaises) ==
    IF ctorRaises THEN Raise("IOError", call.root)
    ELSE Return([cls |-> call.cls,
                 dict |-> ("_root" :> call.root) @@ ("_args" :> call.args)
                          @@ ("_kwargs" :> call.kwargs)])

\* The attributes a corpus reader class defines.
ReaderClassAttrs == { "words", "raw", "__repr__" }

\* An attribute of a reader class read on an object with the dict d: words and
\* __repr__ give a value computed from the object's own fields, raw raises.
ReaderClassAttr(cls, attr, d) ==
    IF ~({"_root", "_args", "_kwargs"} \subseteq DOMAIN d)
    THEN Raise("AttributeError", <<cls, "_root">>)
    ELSE IF attr = "raw" THEN Raise("IOError", d["_root"])
    ELSE Return(<<cls, attr>> \o d["_root"] \o <<"|">> \o d["_args"]
                \o <<"|">> \o d["_kwargs"])

----------------------------------------------------------------------------
\* LazyCorpusLoader

\* __init__: the four private fields, and __name__.
LazyCorpusLoader_init(name, reader_cls, args, kwargs) ==
    [cls |-> LAZY,
     dict |-> ("_LazyCorpusLoader__name" :> name) @@ ("__name__" :> name)
              @@ ("_LazyCorpusLoader__reader_cls" :> reader_cls)
              @@ ("_LazyCorpusLoader__args" :> args)
              @@ ("_LazyCorpusLoader__kwargs" :> kwargs)]

\* One call of nltk.data.find, as the history keeps it.
Find(path, r) == [path |-> path, found |-> r.kind = "return"]

\* Fault model: primary first, the archive tried, and the primary's error
\* raised whatever the archive lookup gave.
FindRootFallbackIgnored(name, zip_name, zipFirst, avail) ==
    LET primary == Corpora(name)
        archive == Corpora(zip_name)
        p == nltk_data_find(primary, avail)
        z == nltk_data_find(archive, avail)
    IN  IF zipFirst
        THEN [finds |-> <<Find(archive, z)>>, out |-> z]
        ELSE IF p.kind = "return"
        THEN [finds |-> <<Find(primary, p)>>, out |-> p]
        ELSE [finds |-> <<Find(primary, p), Find(archive, z)>>, out |-> p]

\* Fault model: when both lookups fail, the error of the last one is raised.
FindRootRaisesLast(name, zip_name, zipFirst, avail) ==
    LET primary == Corpora(name)
        archive == Corpora(zip_name)
        p == nltk_data_find(primary, avail)
        z == nltk_data_find(archive, avail)
    IN  IF zipFirst
        THEN [finds |-> <<Find(archive, z)>>, out |-> z]
        ELSE IF p.kind = "return"
        THEN [finds |-> <<Find(primary, p)>>, out |-> p]
        ELSE [finds |-> <<Find(primary, p), Find(archive, z)>>, out |-> z]

\* Fault model: archive first, and the primary path tried when the archive
\* lookup fails.
FindRootSymmetric(name, zip_name, zipFirst, avail) ==
    LET primary == Corpora(name)
        archive == Corpora(zip_name)
        p == nltk_data_find(primary, avail)
        z == nltk_data_find(archive, avail)
    IN  IF zipFirst
        THEN IF z.kind = "return"
             THEN [finds |-> <<Find(archive, z)>>, out |-> z]
             ELSE [finds |-> <<Find(archive, z), Find(primary, p)>>,
                   out |-> IF p.kind = "return" THEN p ELSE z]
        ELSE IF p.kind = "return"
        THEN [finds |-> <<Find(primary, p)>>, out |-> p]
        ELSE [finds |-> <<Find(primary, p), Find(archive, z)>>,
              out |-> IF z.kind = "return" THEN z ELSE p]

\* Fault model: primary first, and the archive looked up whether or not the
\* primary lookup succeeded.
FindRootBothAlways(name, zip_name, zipFirst, avail) ==
    LET primary == Corpora(name)
        archive == Corpora(zip_name)
        p == nltk_data_find(primary, avail)
        z == nltk_data_find(archive, avail)
    IN  IF zipFirst
        THEN [finds |-> <<Find(archive, z)>>, out |-> z]
        ELSE [finds |-> <<Find(primary, p), Find(archive, z)>>,
              out |-> IF p.kind = "return" THEN p
                      ELSE IF z.kind = "return" THEN z ELSE p]

\* __load, lines 49-60: the root of the corpus under the policy flag. finds are
\* the calls of nltk.data.find, in order; out is the root or the LookupError
\* that leaves __load.
FindRoot(name, zip_name, zipFirst, avail) ==
    LET primary == Corpora(name)
        archive == Corpora(zip_name)
        p == nltk_data_find(primary, avail)
        z == nltk_data_find(archive, avail)
    IN  IF zipFirst
        THEN [finds |-> <<Find(archive, z)>>, out |-> z]
        ELSE IF p.kind = "return"
        THEN [finds |-> <<Find(primary, p)>>, out |-> p]
        ELSE [finds |-> <<Find(primary, p), Find(archive, z)>>,
              out |-> IF z.kind = "return" THEN z ELSE p]

\* Fault model: the constructor called with the root alone.
CtorCallRootOnly(d, root) ==
    [cls |-> d["_LazyCorpusLoader__reader_cls"], root |-> root,
     args |-> <<>>, kwargs |-> <<>>]

\* __load, line 63: the arguments of the constructor call.
CtorCall(d, root) ==
    [cls |-> d["_LazyCorpusLoader__reader_cls"], root |-> root,
     args |-> d["_LazyCorpusLoader__args"],
     kwargs |-> d["_LazyCorpusLoader__kwargs"]]

\* Fault model: the closure rebuilds the lazy loader without its keyword arguments.
UnloadClosureNoKwargs(d) ==
    [name |-> d["_LazyCorpusLoader__name"],
     reader_cls |-> d["_LazyCorpusLoader__reader_cls"],
     args |-> d["_LazyCorpusLoader__args"],
     kwargs |-> <<>>]

\* Fault model: the closure rebuilds the lazy loader without its positional
\* arguments.
UnloadClosureNoArgs(d) ==
    [name |-> d["_LazyCorpusLoader__name"],
     reader_cls |-> d["_LazyCorpusLoader__reader_cls"],
     args |-> <<>>,
     kwargs |-> d["_LazyCorpusLoader__kwargs"]]

\* __load, lines 69-70 and 78-82: what the _unload closure captures.
UnloadClosure(d) ==
    [name |-> d["_LazyCorpusLoader__name"],
     reader_cls |-> d["_LazyCorpusLoader__reader_cls"],
     args |-> d["_LazyCorpusLoader__args"],
     kwargs |-> d["_LazyCorpusLoader__kwargs"]]

\* Fault model: the handle takes the corpus's __dict__ and keeps its own __class__.
TransformDictOnly(h, corpus) ==
    [cls |-> h.cls,
     dict |-> ("_unload" :> UnloadClosure(h.dict)) @@ corpus.dict]

\* Fault model: the handle takes the corpus's __class__ and keeps its own __dict__.
TransformClassOnly(h, corpus) ==
    [cls |-> corpus.cls,
     dict |-> ("_unload" :> UnloadClosure(h.dict)) @@ h.dict]

\* Fault model: the handle adds the corpus's __dict__ to its own and keeps its
\* own __class__.
TransformKeepsLazy(h, corpus) ==
    [cls |-> h.cls,
     dict |-> ("_unload" :> UnloadClosure(h.dict)) @@ corpus.dict @@ h.dict]

\* __load, lines 72-73 and 84: the handle takes the corpus's __dict__ and
\* __class__, and the bound _unload goes into that dict.
Transform(h, corpus) ==
    [cls |-> corpus.cls,
     dict |-> ("_unload" :> UnloadClosure(h.dict)) @@ corpus.dict]

\* No collaborator was called.
NoCalls ==
    [finds |-> <<>>, ctors |-> <<>>, loads |-> 0, builds |-> <<>>, order |-> <<>>]

\* The collaborator calls of one __load in the order it made them: the lookups
\* of lines 50-59, then the reader class of line 63 if __load got that far.
CallOrder(finds, ctors) ==
    [i \in 1..Len(finds) |-> "find"] \o [i \in 1..Len(ctors) |-> "reader_cls"]

\* The private fields __init__ sets and __load reads.
PrivateFields ==
    { "_LazyCorpusLoader__name", "_LazyCorpusLoader__reader_cls",
      "_LazyCorpusLoader__args", "_LazyCorpusLoader__kwargs" }

\* A __getattr__ that calls itself until the interpreter stops it.
RecursionError == Raise("RuntimeError", <<"maximum recursion depth exceeded">>)

\* __load, lines 63-84: the constructor has answered c to call; an error
\* leaves __load, a corpus is what the handle turns into.
LoadBuilt(h, finds, call, c) ==
    IF c.kind = "raise"
    THEN [h |-> h, out |-> c,
          calls |-> [NoCalls EXCEPT !.finds = finds, !.ctors = <<call>>, !.loads = 1,
                                    !.order = CallOrder(finds, <<call>>)]]
    ELSE [h |-> Transform(h, c.val), out |-> Return(None),
          calls |-> [finds |-> finds, ctors |-> <<call>>, loads |-> 1,
                     builds |-> <<c.val>>, order |-> CallOrder(finds, <<call>>)]]

\* Fault model: a failed lookup is reported by a new error that names the corpus.
LoadFoundWraps(h, f, ctorRaises) ==
    IF f.out.kind = "raise"
    THEN [h |-> h, out |-> Raise("LookupError", h.dict["_LazyCorpusLoader__name"]),
          calls |-> [NoCalls EXCEPT !.finds = f.finds, !.loads = 1,
                                    !.order = CallOrder(f.finds, <<>>)]]
    ELSE LoadBuilt(h, f.finds, CtorCall(h.dict, f.out.val),
                   reader_cls_call(CtorCall(h.dict, f.out.val), ctorRaises))

\* Fault model: the reader class is called although the lookup failed, with
\* no root.
LoadFoundAnyway(h, f, ctorRaises) ==
    IF f.out.kind = "raise"
    THEN LoadBuilt(h, f.finds, CtorCall(h.dict, None),
                   reader_cls_call(CtorCall(h.dict, None), ctorRaises))
    ELSE LoadBuilt(h, f.finds, CtorCall(h.dict, f.out.val),
                   reader_cls_call(CtorCall(h.dict, f.out.val), ctorRaises))

\* __load, lines 49-63: the location was resolved as f says; a LookupError
\* leaves __load, a root goes to the reader class.
LoadFound(h, f, ctorRaises) ==
    IF f.out.kind = "raise"
    THEN [h |-> h, out |-> f.out,
          calls |-> [NoCalls EXCEPT !.finds = f.finds, !.loads = 1,
                                    !.order = CallOrder(f.finds, <<>>)]]
    ELSE LoadBuilt(h, f.finds, CtorCall(h.dict, f.out.val),
                   reader_cls_call(CtorCall(h.dict, f.out.val), ctorRaises))

\* __load as a whole: the handle after it, what leaves it, and its calls. A
\* private field missing from the dict is itself looked up through __getattr__,
\* which calls __load again, without end.
LazyCorpusLoader_load(h, zipFirst, emptyAdjacent, avail, ctorRaises) ==
    IF ~(PrivateFields \subseteq DOMAIN h.dict)
    THEN [h |-> h, out |-> RecursionError, calls |-> [NoCalls EXCEPT !.loads = 1]]
    ELSE LoadFound(h,
                   FindRoot(h.dict["_LazyCorpusLoader__name"],
                            re_sub(h.dict["_LazyCorpusLoader__name"], emptyAdjacent),
                            zipFirst, avail),
                   ctorRaises)

\* The calls of a, then those of b.
Then(a, b) ==
    [finds |-> a.finds \o b.finds, ctors |-> a.ctors \o b.ctors,
     loads |-> a.loads + b.loads, builds |-> a.builds \o b.builds,
     order |-> a.order \o b.order]

\* The outcome g of a step that followed the calls c.
After(c, g) == [h |-> g.h, out |-> g.out, calls |-> Then(c, g.calls)]

\* Fault model: __getattr__ refuses nothing.
IsProtectedNever(attr) == FALSE

\* The attribute that __getattr__ refuses without loading.
IsProtected(attr) == attr = "__bases__"

\* The methods LazyCorpusLoader defines that a caller may name: normal lookup
\* finds them on the class, and __getattr__ is not asked.
LazyClassAttrs == { "__repr__", "_unload" }

RECURSIVE getattr(_, _, _, _, _, _, _)

\* __getattr__, lines 95-98: __load has ended as l says; its error leaves
\* __getattr__, else the attribute is looked up again on the transformed self.
Redispatch(l, attr, zipFirst, emptyAdjacent, avail, ctorRaises, depth) ==
    IF l.out.kind = "raise" THEN l
    ELSE After(l.calls,
               getattr(l.h, attr, zipFirst, emptyAdjacent, avail, ctorRaises, depth + 1))

\* __getattr__: refuse __bases__, else __load and look the attribute up again.
LazyCorpusLoader_getattr(h, attr, zipFirst, emptyAdjacent, avail, ctorRaises, depth) ==
    IF IsProtected(attr)
    THEN [h |-> h, calls |-> NoCalls,
          out |-> Raise("AttributeError",
                        <<"LazyCorpusLoader object has no attribute '__bases__'">>)]
    ELSE Redispatch(LazyCorpusLoader_load(h, zipFirst, emptyAdjacent, avail, ctorRaises),
                    attr, zipFirst, emptyAdjacent, avail, ctorRaises, depth)

\* getattr(h, attr): the instance dict, then the class, then the class's
\* __getattr__ (LazyCorpusLoader alone defines one), else AttributeError.
getattr(h, attr, zipFirst, emptyAdjacent, avail, ctorRaises, depth) ==
    IF depth > MaxRecursion
    THEN [h |-> h, out |-> RecursionError, calls |-> NoCalls]
    ELSE IF attr \in DOMAIN h.dict
    THEN [h |-> h, out |-> Return(h.dict[attr]), calls |-> NoCalls]
    ELSE IF h.cls # LAZY
    THEN [h |-> h, calls |-> NoCalls,
          out |-> IF attr \in ReaderClassAttrs
                  THEN ReaderClassAttr(h.cls, attr, h.dict)
                  ELSE Raise("AttributeError", <<h.cls, attr>>)]
    ELSE IF attr \in LazyClassAttrs
    THEN [h |-> h, calls |-> NoCalls, out |-> Return(<<"bound method", h.cls, attr>>)]
    ELSE LazyCorpusLoader_getattr(h, attr, zipFirst, emptyAdjacent, avail,
                                  ctorRaises, depth)

\* Fault model: the class has no _unload of its own, and the lookup fails.
UnloadedNoStub(h) ==
    IF "_unload" \in DOMAIN h.dict
    THEN LET c == h.dict["_unload"]
         IN  [h |-> LazyCorpusLoader_init(c.name, c.reader_cls, c.args, c.kwargs),
              out |-> Return(None)]
    ELSE [h |-> h, out |-> Raise("AttributeError", <<h.cls, "_unload">>)]

\* Fault model: the reset gives the handle its lazy class back and leaves the
\* corpus's dict in place.
UnloadedKeepsDict(h) ==
    IF "_unload" \in DOMAIN h.dict
    THEN [h |-> [cls |-> LAZY, dict |-> h.dict], out |-> Return(None)]
    ELSE IF h.cls = LAZY THEN [h |-> h, out |-> Return(None)]
    ELSE [h |-> h, out |-> Raise("AttributeError", <<h.cls, "_unload">>)]

\* Fault model: _unload does nothing, on a loaded handle too.
UnloadedKeepsDelegate(h) == [h |-> h, out |-> Return(None)]

\* h._unload(): the closure __load put into the dict rebuilds the lazy loader
\* from what it captured and takes its __dict__ and __class__; the class's own
\* _unload does nothing.
Unloaded(h) ==
    IF "_unload" \in DOMAIN h.dict
    THEN LET c == h.dict["_unload"]
         IN  [h |-> LazyCorpusLoader_init(c.name, c.reader_cls, c.args, c.kwargs),
              out |-> Return(None)]
    ELSE IF h.cls = LAZY THEN [h |-> h, out |-> Return(None)]
    ELSE [h |-> h, out |-> Raise("AttributeError", <<h.cls, "_unload">>)]

\* Fault model: __repr__ reads attributes the instance does not hold.
ReprReadsPublic == <<"reader_cls", "name">>

\* The attributes of self that LazyCorpusLoader.__repr__ reads.
ReprReads == <<"_LazyCorpusLoader__reader_cls", "_LazyCorpusLoader__name">>

\* __repr__, line 101: the format, given the two attribute reads a and b.
ReprFormat(a, b) ==
    IF b.out.kind = "raise" THEN After(a.calls, b)
    ELSE After(a.calls,
               [b EXCEPT !.out = Return(<<"<", a.out.val, " in '.../corpora/">>
                                        \o b.out.val \o <<"' (not loaded yet)>">>)])

\* __repr__ after its first attribute read a: the second read, on the self
\* the first one left.
ReprSecond(a, zipFirst, emptyAdjacent, avail, ctorRaises) ==
    IF a.out.kind = "raise" THEN a
    ELSE ReprFormat(a, getattr(a.h, ReprReads[2], zipFirst, emptyAdjacent, avail,
                               ctorRaises, 0))

\* repr(h): the type's __repr__. LazyCorpusLoader's reads two attributes of
\* self, each an ordinary attribute access, and formats them.
Repr(h, zipFirst, emptyAdjacent, avail, ctorRaises) ==
    IF h.cls # LAZY
    THEN [h |-> h, out |-> ReaderClassAttr(h.cls, "__repr__", h.dict),
          calls |-> NoCalls]
    ELSE ReprSecond(getattr(h, ReprReads[1], zipFirst, emptyAdjacent, avail,
                            ctorRaises, 0),
                    zipFirst, emptyAdjacent, avail, ctorRaises)

----------------------------------------------------------------------------
\* The state machine: one handle, and the operations a caller performs on it.

Handle == [cls |-> hclass, dict |-> hdict]

Loaded == hclass # LAZY

\* The three states the specification names. The code keeps no state field: a
\* handle whose load failed is a lazy loader whose last __load raised.
State ==
    IF Loaded THEN "Loaded"
    ELSE IF lastLoad = "failed" THEN "Failed" ELSE "Unloaded"

\* The handle holds what a corpus object holds.
DelegateHeld == \E k \in {"_root", "_args", "_kwargs"} : k \in DOMAIN hdict

Last(s) == s[Len(s)]

\* The threads that may be inside getattr(handle, attr) at once.
Callers == 1..MaxCallers

\* A thread's position in getattr -> __getattr__ -> __load and its locals: the
\* attribute asked for, the root found, the corpus built, the instance dict
\* as lines 69-70 read it, what the caller got, and the constructor calls
\* its access has made.
Idle ==
    [pc |-> "idle", attr |-> "", root |-> None,
     corpus |-> [cls |-> "None", dict |-> <<>>], captured |-> <<>>,
     out |-> Return(None), ctors |-> 0]

Init ==
    /\ \E name \in Names, reader_cls \in ReaderClasses, a \in CtorArgs :
          /\ created = [name |-> name, reader_cls |-> reader_cls,
                        args |-> a.args, kwargs |-> a.kwargs]
          /\ hclass = LazyCorpusLoader_init(name, reader_cls, a.args, a.kwargs).cls
          /\ hdict = LazyCorpusLoader_init(name, reader_cls, a.args, a.kwargs).dict
    /\ TRY_ZIPFILE_FIRST \in BOOLEAN
    /\ reEmptyAdjacent \in BOOLEAN
    /\ built = [cls |-> "None", dict |-> <<>>]
    /\ pre = [cls |-> LAZY, state |-> "Unloaded", reset |-> FALSE, failures |-> 0]
    /\ result = [op |-> "__init__", attr |-> "", out |-> Return(None)]
    /\ calls = NoCalls
    /\ lastLoad = "none"
    /\ cycles = 0 /\ failures = 0
    /\ resources = {}
    /\ callers = [t \in Callers |-> Idle]

\* The candidate paths of the handle's name.
Candidates ==
    { Corpora(created.name), Corpora(re_sub(created.name, reEmptyAdjacent)) }

\* The state before an operation, as the history keeps it: the class, the
\* state, whether the operation before it has just reset a loaded handle, and
\* the failed loads in a row so far.
Before ==
    [cls |-> hclass, state |-> State,
     reset |-> result.op = "_unload" /\ pre.cls # LAZY /\ hclass = LAZY,
     failures |-> failures]

\* What an operation's load attempts leave in the history.
AfterLoads(c, avail) ==
    /\ calls' = c
    /\ resources' = IF c.loads = 0 THEN {} ELSE avail
    /\ built' = IF c.builds # <<>> THEN Last(c.builds) ELSE built
    /\ lastLoad' = IF c.loads = 0 THEN lastLoad
                   ELSE IF c.builds # <<>> THEN "ok" ELSE "failed"
    /\ failures' = IF c.loads = 0 THEN failures
                   ELSE IF c.builds # <<>> THEN 0 ELSE failures + 1
    /\ failures' <= MaxFailures

\* getattr(handle, attr), with the resources that exist and the constructor's
\* behaviour at that moment.
Access(attr) ==
    /\ \E avail \in SUBSET Candidates, ctorRaises \in BOOLEAN :
       \E g \in { getattr(Handle, attr, TRY_ZIPFILE_FIRST, reEmptyAdjacent,
                          avail, ctorRaises, 0) } :
          /\ hclass' = g.h.cls
          /\ hdict' = g.h.dict
          /\ result' = [op |-> "getattr", attr |-> attr, out |-> g.out]
          /\ AfterLoads(g.calls, avail)
    /\ pre' = Before
    /\ UNCHANGED <<TRY_ZIPFILE_FIRST, reEmptyAdjacent, created, cycles, callers>>

\* handle._unload()
Unload ==
    /\ \E u \in { Unloaded(Handle) } :
          /\ hclass' = u.h.cls
          /\ hdict' = u.h.dict
          /\ result' = [op |-> "_unload", attr |-> "_unload", out |-> u.out]
          /\ lastLoad' = IF Loaded /\ u.h.cls = LAZY THEN "none" ELSE lastLoad
          /\ cycles' = IF Loaded /\ u.h.cls = LAZY THEN cycles + 1 ELSE cycles
          /\ cycles' <= MaxCycles
    /\ calls' = NoCalls
    /\ resources' = {}
    /\ pre' = Before
    /\ UNCHANGED <<TRY_ZIPFILE_FIRST, reEmptyAdjacent, created, built, failures,
                   callers>>

\* repr(handle), with the resources that exist and the constructor's behaviour
\* at that moment.
Describe ==
    /\ \E avail \in SUBSET Candidates, ctorRaises \in BOOLEAN :
       \E r \in { Repr(Handle, TRY_ZIPFILE_FIRST, reEmptyAdjacent, avail,
                       ctorRaises) } :
          /\ hclass' = r.h.cls
          /\ hdict' = r.h.dict
          /\ result' = [op |-> "repr", attr |-> "__repr__", out |-> r.out]
          /\ AfterLoads(r.calls, avail)
    /\ pre' = Before
    /\ UNCHANGED <<TRY_ZIPFILE_FIRST, reEmptyAdjacent, created, cycles, callers>>

Next ==
    \/ \E attr \in Attrs : Access(attr)
    \/ Unload
    \/ Describe

Spec == Init /\ [][Next]_vars

----------------------------------------------------------------------------
\* Several threads inside getattr(handle, attr) on the one handle. The code
\* takes no lock, so a thread may be suspended between any two of the steps
\* below, each of which reads or writes the shared __dict__ and __class__.

\* What the sequential history keeps; the threads leave it alone.
sequential ==
    <<TRY_ZIPFILE_FIRST, reEmptyAdjacent, created, built, pre, result, calls,
      lastLoad, cycles, failures, resources>>

\* The access of thread t is over: the caller got out.
Done(t, out) ==
    [callers EXCEPT ![t] = [Idle EXCEPT !.pc = "done", !.out = out,
                                        !.ctors = callers[t].ctors]]

\* getattr(handle, attr) reaches __load: normal lookup finds nothing on a lazy
\* loader, and __getattr__ does not refuse the name.
ReachesLoad(h, attr) ==
    /\ h.cls = LAZY
    /\ attr \notin DOMAIN h.dict
    /\ attr \notin LazyClassAttrs
    /\ ~IsProtected(attr)

\* Thread t calls getattr(handle, attr): answered at once, or __getattr__
\* line 95 enters __load.
Enter(t, attr) ==
    /\ callers[t].pc = "idle"
    /\ callers' =
          IF ReachesLoad(Handle, attr)
          THEN [callers EXCEPT ![t].pc = "find", ![t].attr = attr]
          ELSE [callers EXCEPT
                  ![t] = [Idle EXCEPT !.pc = "done",
                            !.out = getattr(Handle, attr, TRY_ZIPFILE_FIRST,
                                            reEmptyAdjacent, {}, FALSE, 0).out]]
    /\ UNCHANGED <<hclass, hdict, sequential>>

\* A private field read by a thread inside __load after another thread has
\* swapped the dict: the field is looked up on what the handle is now.
FieldGone(field) ==
    getattr(Handle, field, TRY_ZIPFILE_FIRST, reEmptyAdjacent, {}, FALSE, 1).out

\* __load, lines 48-60, in thread t: self.__name is read and looked up.
Locate(t) ==
    /\ callers[t].pc = "find"
    /\ \E avail \in SUBSET Candidates :
          callers' =
            IF "_LazyCorpusLoader__name" \notin DOMAIN hdict
            THEN Done(t, FieldGone("_LazyCorpusLoader__name"))
            ELSE LET f == FindRoot(hdict["_LazyCorpusLoader__name"],
                                   re_sub(hdict["_LazyCorpusLoader__name"],
                                          reEmptyAdjacent),
                                   TRY_ZIPFILE_FIRST, avail)
                 IN  IF f.out.kind = "raise" THEN Done(t, f.out)
                     ELSE [callers EXCEPT ![t].pc = "construct",
                                          ![t].root = f.out.val]
    /\ UNCHANGED <<hclass, hdict, sequential>>

\* __load, line 63, in thread t: the reader class is called with the fields
\* self holds at that moment.
Construct(t) ==
    /\ callers[t].pc = "construct"
    /\ \E ctorRaises \in BOOLEAN :
          callers' =
            IF ~(PrivateFields \subseteq DOMAIN hdict)
            THEN Done(t, FieldGone("_LazyCorpusLoader__reader_cls"))
            ELSE LET c == reader_cls_call(CtorCall(hdict, callers[t].root),
                                          ctorRaises)
                     n == callers[t].ctors + 1
                 IN  IF c.kind = "raise"
                     THEN [Done(t, c) EXCEPT ![t].ctors = n]
                     ELSE [callers EXCEPT ![t].pc = "capture", ![t].root = None,
                                          ![t].corpus = c.val, ![t].ctors = n]
    /\ UNCHANGED <<hclass, hdict, sequential>>

\* __load, lines 69-70, in thread t: the four fields are read for the closure.
Capture(t) ==
    /\ callers[t].pc = "capture"
    /\ callers' =
          IF ~(PrivateFields \subseteq DOMAIN hdict)
          THEN Done(t, FieldGone("_LazyCorpusLoader__args"))
          ELSE [callers EXCEPT ![t].pc = "swap", ![t].captured = hdict]
    /\ UNCHANGED <<hclass, hdict, sequential>>

\* __load, lines 72-84, in thread t: the handle becomes the corpus this
\* thread built, with this thread's closure.
Swap(t) ==
    /\ callers[t].pc = "swap"
    /\ \E h \in { Transform([cls |-> hclass, dict |-> callers[t].captured],
                             callers[t].corpus) } :
          /\ hclass' = h.cls
          /\ hdict' = h.dict
    /\ callers' = [callers EXCEPT ![t].pc = "redispatch",
                                  ![t].corpus = Idle.corpus,
                                  ![t].captured = Idle.captured]
    /\ UNCHANGED sequential

\* __getattr__, line 98, in thread t: the attribute is looked up again on
\* what the handle is now.
Retry(t) ==
    /\ callers[t].pc = "redispatch"
    /\ \E avail \in SUBSET Candidates, ctorRaises \in BOOLEAN :
       \E g \in { getattr(Handle, callers[t].attr, TRY_ZIPFILE_FIRST,
                          reEmptyAdjacent, avail, ctorRaises, 1) } :
          /\ hclass' = g.h.cls
          /\ hdict' = g.h.dict
          /\ callers' = [Done(t, g.out) EXCEPT
                           ![t].ctors = callers[t].ctors + Len(g.calls.ctors)]
    /\ UNCHANGED sequential

NextConcurrent ==
    \E t \in Callers :
       \/ \E attr \in Attrs : Enter(t, attr)
       \/ Locate(t)
       \/ Construct(t)
       \/ Capture(t)
       \/ Swap(t)
       \/ Retry(t)

SpecConcurrent == Init /\ [][NextConcurrent]_vars

----------------------------------------------------------------------------
\* Properties.

\* The handle as __init__ made it.
CreatedHandle ==
    LazyCorpusLoader_init(created.name, created.reader_cls, created.args,
                          created.kwargs)

\* The names meant for the corpus: neither refused by __getattr__ nor held by
\* the lazy handle itself.
Capabilities ==
    { a \in Attrs : ~IsProtected(a) /\ a \notin DOMAIN CreatedHandle.dict }

\* The names present on the corpus c, and what reading one on c itself gives.
DelegateNames(c) == DOMAIN c.dict \cup ReaderClassAttrs

Direct(c, a) == getattr(c, a, FALSE, FALSE, {}, FALSE, 0).out

\* A location was resolved in the last operation.
Resolved == \E i \in DOMAIN calls.finds : calls.finds[i].found

\* C1: An access whose load succeeds calls the constructor exactly once, with
\* the reader class, args and kwargs given at creation; every access to a
\* handle that is already loaded calls neither nltk.data.find nor the
\* constructor.
C1_ConstructedOnce ==
    result.op = "getattr" =>
        /\ (pre.cls = LAZY /\ calls.builds # <<>>) =>
              /\ calls.loads = 1
              /\ Len(calls.ctors) = 1
              /\ calls.ctors[1].cls = created.reader_cls
              /\ calls.ctors[1].args = created.args
              /\ calls.ctors[1].kwargs = created.kwargs
        /\ pre.cls # LAZY =>
              /\ calls.loads = 0
              /\ calls.ctors = <<>>
              /\ calls.finds = <<>>

\* C1's case: a capability read on a handle an earlier access has loaded, with
\* no reset since creation.
C1_Witness ==
    /\ result.op = "getattr" /\ result.attr \in Capabilities
    /\ pre.cls # LAZY /\ Loaded /\ cycles = 0

\* C2: While the handle is loaded, every name present on the corpus the
\* constructor returned reads through the handle as it reads on that corpus,
\* value or error alike; and the access just made, the one that loaded the
\* handle included, gave its caller what the corpus gives.
C2_ForwardsLikeDelegate ==
    Loaded =>
        /\ \A a \in DelegateNames(built) :
              getattr(Handle, a, TRY_ZIPFILE_FIRST, reEmptyAdjacent, {}, FALSE, 0).out
                  = Direct(built, a)
        /\ (result.op = "getattr" /\ result.attr \in DelegateNames(built)) =>
              result.out = Direct(built, result.attr)

\* C2's case: the access that loaded the handle returned a value of the corpus.
C2_Witness ==
    /\ Loaded /\ pre.cls = LAZY
    /\ result.op = "getattr" /\ result.attr = "words"
    /\ result.out.kind = "return"

\* C3 as claimed: after _unload() on a loaded handle, any capability access
\* calls the constructor exactly once more, with the reader class, args and
\* kwargs given at creation, for a location looked up under the name given at
\* creation.
C3_Original ==
    (pre.reset /\ result.op = "getattr" /\ result.attr \in Capabilities) =>
        /\ Len(calls.ctors) = 1
        /\ \A i \in DOMAIN calls.ctors :
              /\ calls.ctors[i].cls = created.reader_cls
              /\ calls.ctors[i].args = created.args
              /\ calls.ctors[i].kwargs = created.kwargs
        /\ \A i \in DOMAIN calls.finds : calls.finds[i].path \in Candidates

\* C3, amended: _unload() on a loaded handle leaves the lazy handle __init__
\* made; the capability access that follows makes exactly one load attempt,
\* looks up only candidates of the name given at creation, and calls the
\* constructor once if a location was resolved and not at all if none was,
\* with the reader class, args and kwargs given at creation. This holds after
\* every reset, however many came before.
C3_ReloadReplaysCreation ==
    /\ (result.op = "_unload" /\ pre.cls # LAZY) => Handle = CreatedHandle
    /\ (pre.reset /\ result.op = "getattr" /\ result.attr \in Capabilities) =>
          /\ calls.loads = 1
          /\ calls.finds # <<>>
          /\ \A i \in DOMAIN calls.finds : calls.finds[i].path \in Candidates
          /\ Len(calls.ctors) = (IF Resolved THEN 1 ELSE 0)
          /\ \A i \in DOMAIN calls.ctors :
                /\ calls.ctors[i].cls = created.reader_cls
                /\ calls.ctors[i].args = created.args
                /\ calls.ctors[i].kwargs = created.kwargs

\* C3's case: the access after the second reset has called the constructor.
C3_Witness ==
    /\ pre.reset /\ cycles = MaxCycles
    /\ result.op = "getattr" /\ result.attr \in Capabilities
    /\ Len(calls.ctors) = 1

\* C4: _unload() on a handle that is not loaded (fresh, left by a failed load,
\* or already reset) returns None, calls neither nltk.data.find nor the
\* constructor, and leaves the handle's class, dict and state as they were,
\* the dict being the one __init__ made.
C4_UnloadWithoutDelegateIsNoOp ==
    [][(~Loaded /\ result'.op = "_unload") =>
          /\ result'.out = Return(None)
          /\ calls' = NoCalls
          /\ hclass' = hclass /\ hdict' = hdict
          /\ State' = State
          /\ Handle' = CreatedHandle]_vars

\* C4's case: _unload() was called on a handle whose load had failed.
C4_Witness ==
    /\ result.op = "_unload" /\ pre.state = "Failed" /\ State = "Failed"
    /\ result.out = Return(None)

\* C5: reading __bases__ on a handle that is not loaded raises the
\* AttributeError of __getattr__, calls neither nltk.data.find nor the
\* constructor, and leaves the handle's class, dict and state as they were;
\* this is so in every state, so however often it is repeated.
C5_ProtectedNeverLoads ==
    [][(~Loaded /\ result'.op = "getattr" /\ result'.attr = "__bases__") =>
          /\ result'.out =
                Raise("AttributeError",
                      <<"LazyCorpusLoader object has no attribute '__bases__'">>)
          /\ calls' = NoCalls
          /\ hclass' = hclass /\ hdict' = hdict
          /\ State' = State]_vars

\* C5's case: __bases__ was read on a handle whose load had failed.
C5_Witness ==
    /\ result.op = "getattr" /\ result.attr = "__bases__"
    /\ pre.state = "Failed" /\ State = "Failed"
    /\ result.out.exc = "AttributeError"

\* C6: repr() of a handle that is not loaded returns the display form (the
\* reader class and the name, "not loaded yet"), calls neither nltk.data.find
\* nor the constructor, and leaves the handle's class, dict and state as they
\* were.
C6_DescribeNeverLoads ==
    [][(~Loaded /\ result'.op = "repr") =>
          /\ result'.out =
                Return(<<"<", created.reader_cls, " in '.../corpora/">>
                       \o created.name \o <<"' (not loaded yet)>">>)
          /\ calls' = NoCalls
          /\ hclass' = hclass /\ hdict' = hdict
          /\ State' = State]_vars

\* C6's case: repr() was called on a handle that _unload() had just reset.
C6_Witness ==
    /\ result.op = "repr" /\ pre.reset /\ ~Loaded
    /\ result.out.kind = "return"

\* The two candidate paths of the handle, and the errors and the location
\* nltk.data.find gives for them.
PrimaryPath == Corpora(created.name)

ArchivePath == Corpora(re_sub(created.name, reEmptyAdjacent))

NotFound(path) == nltk_data_find(path, {})

Location(path) == nltk_data_find(path, {path}).val

\* The last operation made a load attempt that failed.
LoadFailed == calls.loads > 0 /\ calls.builds = <<>>

\* C7: After an access whose load attempt failed, in location resolution or
\* in the constructor, the state is Failed, the handle holds nothing of a
\* corpus and is the lazy handle __init__ made, and the caller got the very
\* error of the collaborator: the LookupError nltk.data.find raised for one of
\* the paths it was asked, or the error the constructor raised.
C7_FailedLoadPropagates ==
    (result.op = "getattr" /\ LoadFailed) =>
        /\ State = "Failed"
        /\ ~DelegateHeld
        /\ Handle = CreatedHandle
        /\ IF calls.ctors = <<>>
           THEN \E i \in DOMAIN calls.finds :
                   /\ ~calls.finds[i].found
                   /\ result.out = NotFound(calls.finds[i].path)
           ELSE result.out = reader_cls_call(calls.ctors[1], TRUE)

\* C7's case: the constructor raised, after a location was resolved.
C7_Witness ==
    /\ result.op = "getattr" /\ LoadFailed
    /\ calls.ctors # <<>> /\ result.out.exc = "IOError"

\* C8: A capability access to a handle whose load has failed makes a fresh
\* load attempt: it asks nltk.data.find again, starting with the policy's
\* first candidate; if a location resolves it calls the constructor once with
\* that location and the stored args, and not otherwise; and if the
\* constructor returns, the handle is Loaded, holds the new corpus, and the
\* caller gets what that corpus gives.
C8_FailedHandleRetries ==
    (result.op = "getattr" /\ pre.state = "Failed" /\ result.attr \in Capabilities) =>
        /\ calls.loads = 1
        /\ calls.finds # <<>>
        /\ calls.finds[1].path = (IF TRY_ZIPFILE_FIRST THEN ArchivePath ELSE PrimaryPath)
        /\ Resolved =>
              calls.ctors =
                  <<[cls |-> created.reader_cls,
                     root |-> Location(calls.finds[Len(calls.finds)].path),
                     args |-> created.args, kwargs |-> created.kwargs]>>
        /\ ~Resolved => calls.ctors = <<>>
        /\ calls.builds # <<>> =>
              /\ Loaded /\ State = "Loaded"
              /\ built = calls.builds[1]
              /\ Handle.cls = built.cls
              /\ result.out = Direct(built, result.attr)

\* C8's case: after the most failed loads in a row the model allows, an access
\* loaded the handle and returned a value of the corpus.
C8_Witness ==
    /\ result.op = "getattr" /\ pre.state = "Failed" /\ pre.failures = MaxFailures
    /\ Loaded /\ result.out.kind = "return"

\* Under the primary-first policy the last operation looked up the primary
\* path, which failed, and then the archive path, which was found.
ArchiveFallback ==
    /\ ~TRY_ZIPFILE_FIRST
    /\ calls.finds = <<[path |-> PrimaryPath, found |-> FALSE],
                       [path |-> ArchivePath, found |-> TRUE]>>

\* C9 as claimed: under the primary-first policy, when the primary lookup
\* fails and the archive lookup succeeds, the load succeeds, the constructor
\* is called with the archive's location, and no error of the load reaches the
\* caller, who gets what the corpus gives.
C9_Original ==
    (result.op = "getattr" /\ ArchiveFallback) =>
        /\ Len(calls.ctors) = 1
        /\ calls.ctors[1].root = Location(ArchivePath)
        /\ Loaded
        /\ result.out = Direct(built, result.attr)

\* C9, amended: under the primary-first policy, when the primary lookup fails
\* and the archive lookup succeeds, the constructor is called once, with the
\* archive's location, and no LookupError reaches the caller; the load
\* succeeds if the constructor returns, and the caller then gets what the
\* corpus gives, else the caller gets the constructor's error.
C9_ArchiveFallbackLoads ==
    (result.op = "getattr" /\ ArchiveFallback) =>
        /\ Len(calls.ctors) = 1
        /\ calls.ctors[1].root = Location(ArchivePath)
        /\ result.out.exc # "LookupError"
        /\ IF calls.builds # <<>>
           THEN Loaded /\ result.out = Direct(built, result.attr)
           ELSE ~Loaded /\ result.out = reader_cls_call(calls.ctors[1], TRUE)

\* C9's case: the handle was loaded from the archive's location.
C9_Witness ==
    /\ result.op = "getattr" /\ ArchiveFallback
    /\ Loaded /\ hdict["_root"] = Location(ArchivePath)

\* C10: Under the primary-first policy, an access whose load attempt resolves
\* neither path has asked for the primary path and then the archive path,
\* gives its caller the LookupError raised for the primary path, and does not
\* call the constructor.
C10_BothFailRaisesPrimary ==
    (result.op = "getattr" /\ ~TRY_ZIPFILE_FIRST /\ calls.loads > 0 /\ ~Resolved) =>
        /\ calls.finds = <<[path |-> PrimaryPath, found |-> FALSE],
                           [path |-> ArchivePath, found |-> FALSE]>>
        /\ result.out = NotFound(PrimaryPath)
        /\ result.out # NotFound(ArchivePath)
        /\ calls.ctors = <<>>
        /\ ~Loaded

\* C10's case: both lookups failed and a LookupError reached the caller.
C10_Witness ==
    /\ result.op = "getattr" /\ ~TRY_ZIPFILE_FIRST
    /\ Len(calls.finds) = 2 /\ ~Resolved
    /\ result.out.exc = "LookupError"

\* C11: under the archive-first policy, a load whose archive lookup fails
\* raises the archive lookup's error at once: the archive path is the only
\* path given to nltk.data.find, the reader class is not called, and the
\* handle stays a lazy loader, whether or not the primary path exists.
C11_ArchiveFirstNoFallback ==
    (/\ result.op = "getattr"
     /\ TRY_ZIPFILE_FIRST
     /\ calls.loads > 0
     /\ ArchivePath \notin resources)
    => /\ calls.finds = <<[path |-> ArchivePath, found |-> FALSE]>>
       /\ result.out = NotFound(ArchivePath)
       /\ calls.ctors = <<>>
       /\ ~Loaded
       /\ hdict = CreatedHandle.dict

C11_Witness ==
    /\ result.op = "getattr"
    /\ TRY_ZIPFILE_FIRST
    /\ calls.loads > 0
    /\ ArchivePath \notin resources
    /\ PrimaryPath \in resources
    /\ result.out = NotFound(ArchivePath)

\* What the handle keeps of its creation: the four private fields while it is
\* a lazy loader, and what the _unload closure captured once __load has put
\* the corpus's dict in their place.
Stored ==
    IF "_unload" \in DOMAIN hdict THEN hdict["_unload"]
    ELSE IF PrivateFields \subseteq DOMAIN hdict
    THEN [name |-> hdict["_LazyCorpusLoader__name"],
          reader_cls |-> hdict["_LazyCorpusLoader__reader_cls"],
          args |-> hdict["_LazyCorpusLoader__args"],
          kwargs |-> hdict["_LazyCorpusLoader__kwargs"]]
    ELSE [name |-> None, reader_cls |-> "None", args |-> None, kwargs |-> None]

\* C12: in every reachable state the name, the reader class, the positional
\* arguments and the keyword arguments the handle keeps are those given at
\* creation, through loads, failed loads and resets.
C12_CreationValuesKept == Stored = created

C12_Witness ==
    /\ Loaded
    /\ cycles > 0
    /\ pre.state = "Failed"
    /\ created.args # <<>>
    /\ Stored = created

\* C13: in every reachable state the handle is in exactly one of Unloaded,
\* Loaded and Failed, and it holds what a corpus holds exactly when it is
\* Loaded: nothing of a corpus is kept after a reset, nor after a load that
\* failed in nltk.data.find or in the reader class.
C13_DelegateIffLoaded ==
    /\ Cardinality({ s \in {"Unloaded", "Loaded", "Failed"} : State = s }) = 1
    /\ DelegateHeld <=> State = "Loaded"
    /\ State = "Loaded" => /\ hclass = built.cls
                           /\ \A k \in DOMAIN built.dict : k \in DOMAIN hdict
    /\ State # "Loaded" => Handle = CreatedHandle

C13_Witness ==
    /\ pre.reset
    /\ result.op = "getattr"
    /\ LoadFailed
    /\ calls.ctors # <<>>
    /\ State = "Failed"
    /\ ~DelegateHeld

\* The reader class has returned a corpus to thread t, whose __load has not
\* yet put it into the handle.
Constructing(t) == callers[t].pc \in {"capture", "swap"}

\* C14 as claimed: when several threads access the same handle that is not
\* yet loaded, before the first load completes, the reader class is called at
\* most once in all: no two threads are both between the constructor's return
\* and the swap.
C14_Original == Cardinality({ t \in Callers : Constructing(t) }) <= 1

\* C14: the code takes no lock; each thread's access calls the reader class
\* at most once, so threads that access the unloaded handle at once call it
\* at most once each, and no more often in all than there are threads.
C14_OncePerCaller == \A t \in Callers : callers[t].ctors <= 1

C14_Witness ==
    /\ Cardinality({ t \in Callers : Constructing(t) }) >= 2
    /\ \A t \in Callers : Constructing(t) => callers[t].ctors = 1

\* The names a caller may ask the lazy handle for: the attributes accessed,
\* the methods of the class, and the fields __init__ set.
Probed == Attrs \cup LazyClassAttrs \cup DOMAIN CreatedHandle.dict

\* getattr(handle, a) on the lazy handle when every resource exists and the
\* reader class returns.
Probe(a) ==
    getattr(CreatedHandle, a, TRY_ZIPFILE_FIRST, reEmptyAdjacent, Candidates,
            FALSE, 0)

\* The names that fail with an AttributeError on the lazy handle with no load
\* attempted.
Refused ==
    { a \in Probed : /\ Probe(a).calls.loads = 0
                     /\ Probe(a).out.kind = "raise"
                     /\ Probe(a).out.exc = "AttributeError" }

\* C15 as claimed: exactly two names fail at once with a lookup error and
\* without a load on a handle that is not loaded, and every other name
\* triggers a load.
C15_Original ==
    /\ Cardinality(Refused) = 2
    /\ \A a \in Probed \ Refused : Probe(a).calls.loads > 0

\* C15: on a handle that is not loaded exactly one name, __bases__, fails at
\* once with an AttributeError and without a load; _unload never loads either,
\* and resolves to the class's method that does nothing; a name triggers a
\* load exactly when it is neither of these nor held by the lazy handle
\* itself (its fields and __repr__).
C15_OnlyBasesRefused ==
    /\ Refused = {"__bases__"}
    /\ Probe("_unload").calls.loads = 0 /\ Probe("_unload").out.kind = "return"
    /\ \A a \in Probed :
          Probe(a).calls.loads > 0
          <=> a \notin {"__bases__", "_unload", "__repr__"} \cup DOMAIN CreatedHandle.dict
    /\ (result.op = "getattr" /\ pre.cls = LAZY)
       => /\ calls.loads > 0
             <=> result.attr \notin {"__bases__"} \cup DOMAIN CreatedHandle.dict
          /\ result.attr = "__bases__"
             => result.out.kind = "raise" /\ result.out.exc = "AttributeError"

C15_Witness ==
    /\ result.op = "getattr"
    /\ result.attr = "__bases__"
    /\ pre.state = "Unloaded"
    /\ pre.reset
    /\ calls.loads = 0
    /\ result.out.exc = "AttributeError"
    /\ ~Loaded

\* The position of the first call of the reader class in the last operation's
\* calls, and the lookups made before it.
FirstCtor == CHOOSE i \in DOMAIN calls.order : calls.order[i] = "reader_cls"

\* C16: in every load attempt nltk.data.find is called before the reader
\* class; the reader class is called only if a lookup resolved a location,
\* and then with exactly the location the last lookup returned; when the
\* lookups fail, the reader class is not called in that attempt.
C16_LocateThenConstruct ==
    calls.loads = 1
    => /\ calls.finds # <<>>
       /\ calls.order[1] = "find"
       /\ Len(calls.ctors) <= 1
       /\ calls.ctors # <<>>
          => /\ Resolved
             /\ Last(calls.finds).found
             /\ \A i \in 1..(FirstCtor - 1) : calls.order[i] = "find"
             /\ FirstCtor = Len(calls.finds) + 1
             /\ calls.ctors[1].root = Location(Last(calls.finds).path)
       /\ ~Resolved => calls.ctors = <<>> /\ ~Loaded

C16_Witness ==
    /\ result.op = "getattr"
    /\ calls.loads = 1
    /\ calls.order = <<"find", "find", "reader_cls">>
    /\ calls.ctors[1].root = Location(ArchivePath)

\* C17: under the primary-first policy a load looks the primary path up
\* first, and the archive path only if that lookup failed: one call of
\* nltk.data.find when the primary lookup succeeds, two when it fails, the
\* primary path and then the archive path.
C17_ArchiveOnlyAfterPrimaryFails ==
    (calls.loads = 1 /\ ~TRY_ZIPFILE_FIRST)
    => /\ calls.finds # <<>>
       /\ calls.finds[1].path = PrimaryPath
       /\ calls.finds[1].found <=> PrimaryPath \in resources
       /\ calls.finds[1].found => Len(calls.finds) = 1
       /\ ~calls.finds[1].found
          => /\ Len(calls.finds) = 2
             /\ calls.finds[2].path = ArchivePath
             /\ calls.finds[2].found <=> ArchivePath \in resources

C17_Witness ==
    /\ ~TRY_ZIPFILE_FIRST
    /\ result.op = "getattr"
    /\ calls.loads = 1
    /\ resources = {PrimaryPath, ArchivePath}
    /\ calls.finds = <<[path |-> PrimaryPath, found |-> TRUE]>>

\* The name's first path segment, and what follows that segment's slash.
FirstSegment(s) == SubSeq(s, 1, SegEnd(s, 1) - 1)

Remaining(s) == SubSeq(s, SegEnd(s, 1) + 1, Len(s))

\* C18: the archive path is the name's first path segment with the container
\* suffix and the name's path nested inside that container: exactly one
\* container name, built from the first segment, and nothing else appended.
\* The path nested may be the whole name or what remains after its first
\* segment, as a directory or not.
C18_OneContainer ==
    re_sub(created.name, reEmptyAdjacent)
        \in { FirstSegment(created.name) \o <<".", "z", "i", "p", "/">>
                 \o inner \o slash :
               inner \in {created.name, Remaining(created.name)},
               slash \in {<<>>, <<"/">>} }

\* C19: a loaded handle stops being Loaded only by _unload(): an access, a
\* refused name or a repr leaves its class and dict as they are, and
\* _unload() on a loaded handle always ends in Unloaded with nothing of the
\* corpus held.
C19_LoadedLeftOnlyByUnload ==
    [][ Loaded
        => IF result'.op = "_unload"
           THEN /\ State' = "Unloaded"
                /\ ~DelegateHeld'
                /\ hclass' = LAZY /\ hdict' = CreatedHandle.dict
                /\ result'.out = Return(None)
           ELSE /\ hclass' = hclass /\ hdict' = hdict
                /\ State' = "Loaded"
                /\ calls'.loads = 0 ]_vars

C19_Witness ==
    /\ result.op = "_unload"
    /\ pre.state = "Loaded"
    /\ cycles = MaxCycles
    /\ State = "Unloaded"
    /\ ~DelegateHeld

\* C20: the second lookup in __getattr__ does not come back to __load: one
\* access makes at most one load attempt and ends; after a load that
\* succeeded the retry is answered by the corpus, so a name the corpus lacks
\* gives the corpus's own AttributeError to the caller, with the handle left
\* Loaded and the reader class called once.
C20_OneLoadPerAccess ==
    result.op = "getattr"
    => /\ calls.loads <= 1
       /\ Len(calls.ctors) <= 1
       /\ result.out # RecursionError
       /\ (pre.cls = LAZY /\ calls.builds # <<>>)
          => /\ Loaded
             /\ Len(calls.ctors) = 1
             /\ result.out = Direct(built, result.attr)
             /\ result.attr \notin DelegateNames(built)
                => result.out = Raise("AttributeError", <<built.cls, result.attr>>)

C20_Witness ==
    /\ result.op = "getattr"
    /\ result.attr = "missing"
    /\ pre.cls = LAZY
    /\ calls.loads = 1
    /\ Len(calls.ctors) = 1
    /\ Loaded
    /\ result.out = Raise("AttributeError", <<built.cls, "missing">>)

====
